---- MODULE Spec2Model ----
(***************************************************************************)
(* isis2mongo: reconciliation of a legacy ISIS record store against the    *)
(* remote ArticleMeta catalog (src/isis2mongo/isis2mongo.py).              *)
(*                                                                         *)
(* Python values are represented as follows.                               *)
(*   str      a sequence of one-character strings, "ab" is <<"a","b">>     *)
(*   None     the one-element sequence <<"None">> ("None" is no character) *)
(*   dict     a function whose DOMAIN is the set of keys                   *)
(*   list     a sequence                                                   *)
(*   a call   [ok |-> TRUE, val |-> v] when it returns v,                  *)
(*            [ok |-> FALSE, exc |-> e] when it raises exception e         *)
(***************************************************************************)
EXTENDS Integers, Sequences, FiniteSets, TLC

VARIABLES
    \* ---- inputs and environment
    issns,        \* the ISSN arguments of run(), a list of strings
    today,        \* datetime.now().isoformat()[:10] of this execution
    isos,         \* the legacy databases: iso name -> list of raw records
    remote,       \* the ArticleMeta catalog: kind -> list of entities
    \* ---- run()
    pc,           \* position in run()
    run,          \* 1 in the first execution of run(), 2 in the second
    articlemeta,  \* kind -> remote identifier keys (lines 231-236)
    ctrl,         \* the DataBroker: session state and the records written
    scan,         \* load_isis_records: position of the generator and its log
    plan,         \* the to-add (new) and to-remove lists (lines 246-252)
    idx,          \* index of the next item of the list the current phase walks
    calls,        \* the load_*, add_* and delete_* calls of this run, in order
    queries,      \* the remote identifier-listing queries of this run, in order
    failure,      \* the exception that ended this run, None while there is none
    faults,       \* failures the environment has produced so far
    \* ---- record-level harness: one raw record through issue_pid / prepare_record
    raw,          \* the raw legacy record handed to the functions
    ipid,         \* outcome of issue_pid on the tag-renamed record
    prepared,     \* outcome of prepare_record(collection, raw)
    rpc           \* position of the harness

recvars == <<raw, ipid, prepared, rpc>>

envvars == <<issns, isos, remote>>

runvars == <<pc, run, articlemeta, ctrl, scan, plan, idx, calls, queries, failure, faults>>

vars == <<issns, today, isos, remote, pc, run, articlemeta, ctrl, scan, plan, idx,
          calls, queries, failure, faults, raw, ipid, prepared, rpc>>

(***************************************************************************)
(* Strings                                                                 *)
(***************************************************************************)
None == <<"None">>

Digit == {"0", "1", "2", "3", "4", "5", "6", "7", "8", "9"}

DigitVal == [c \in Digit |->
    CASE c = "0" -> 0 [] c = "1" -> 1 [] c = "2" -> 2 [] c = "3" -> 3
      [] c = "4" -> 4 [] c = "5" -> 5 [] c = "6" -> 6 [] c = "7" -> 7
      [] c = "8" -> 8 [] c = "9" -> 9]

DigitChar == <<"0", "1", "2", "3", "4", "5", "6", "7", "8", "9">>

Min(a, b) == IF a < b THEN a ELSE b

\* s[a:b] with 0 <= a, 0 <= b: Python slices saturate at the end of the string.
Slice(s, a, b) == SubSeq(s, a + 1, Min(b, Len(s)))

\* s[a:]
SliceFrom(s, a) == SubSeq(s, a + 1, Len(s))

\* bool(v) of a str or None: None and '' are falsy.
Truthy(v) == v # None /\ v # <<>>

\* s.replace('-', '')
RECURSIVE StripDashes(_)
StripDashes(s) ==
    IF s = <<>> THEN <<>>
    ELSE IF Head(s) = "-" THEN StripDashes(Tail(s))
    ELSE <<Head(s)>> \o StripDashes(Tail(s))

\* A variant that keeps every digit of s, as a pattern without the ^ anchor
\* applied with findall would.
EveryDigit(s) == SelectSeq(s, LAMBDA c : c \in Digit)

\* REGEX_FIXISSUEID.match(s).group(): the longest prefix of s made of 0-9.
RECURSIVE LeadingDigits(_)
LeadingDigits(s) ==
    IF s = <<>> \/ Head(s) \notin Digit THEN <<>>
    ELSE <<Head(s)>> \o LeadingDigits(Tail(s))

\* int(s) of a non-empty string of decimal digits.
RECURSIVE IntOfDigits(_, _)
IntOfDigits(s, acc) ==
    IF s = <<>> THEN acc
    ELSE IntOfDigits(Tail(s), acc * 10 + DigitVal[Head(s)])

\* "%d" % n, n >= 0
RECURSIVE Decimal(_)
Decimal(n) ==
    IF n < 10 THEN <<DigitChar[n + 1]>>
    ELSE Decimal(n \div 10) \o <<DigitChar[(n % 10) + 1]>>

\* zero padding on the left up to width w; longer strings are kept whole.
RECURSIVE ZeroPad(_, _)
ZeroPad(s, w) == IF Len(s) >= w THEN s ELSE ZeroPad(<<"0">> \o s, w)

OrderWidth == 4

\* "%04d" % n
Format04d(n) == ZeroPad(Decimal(n), OrderWidth)

(***************************************************************************)
(* Calls that return or raise                                              *)
(***************************************************************************)
Ok(v) == [ok |-> TRUE, val |-> v]

Raise(e) == [ok |-> FALSE, exc |-> e]

(***************************************************************************)
(* Legacy records                                                          *)
(***************************************************************************)
EmptyDict == [k \in {} |-> <<>>]

\* [{'_': s}]
Occ(s) == << ("_" :> s) >>

\* The field tags of the legacy databases used here; str(tag).isdigit()
\* holds of exactly these among the keys a record can carry.
NumericTags == {"35", "36", "91", "400", "880", "992"}

IsDigitTag(tag) == tag \in NumericTags

\* record.get(tag, [{'_': default}])[0]['_']
Primary(record, tag, default) ==
    IF tag \notin DOMAIN record THEN Ok(default)
    ELSE IF Len(record[tag]) = 0 THEN Raise("IndexError")
    ELSE IF "_" \notin DOMAIN record[tag][1] THEN Raise("KeyError")
    ELSE Ok(record[tag][1]["_"])

\* int(group or 0) of lines 95-96: the number the matched digits denote.
OrderNumber(group) == IF group = <<>> THEN 0 ELSE IntOfDigits(group, 0)

\* Lines 95-96: the order string of a v36 value.
IssueOrder(v36) == Format04d(OrderNumber(LeadingDigits(SliceFrom(v36, 4))))

\* Lines 92-102 on the first occurrences of v35 and v36: a None v36 raises
\* the TypeError the function catches (it returns None); a None v35 raises
\* TypeError at line 100, outside the try block.
IssuePidOf(issn, v36) ==
    IF ~issn.ok THEN issn
    ELSE IF ~v36.ok THEN v36
    ELSE IF v36.val = None THEN Ok(None)
    ELSE IF issn.val = None THEN Raise("TypeError")
    ELSE Ok(issn.val \o Slice(v36.val, 0, 4) \o IssueOrder(v36.val))

issue_pid(record) ==
    IssuePidOf(Primary(record, "v35", None), Primary(record, "v36", None))

(***************************************************************************)
(* datetime.strptime(s, '%Y%m%d').isoformat()[:10]                         *)
(***************************************************************************)
AllDigits(s) == \A i \in 1..Len(s) : s[i] \in Digit

\* %m is the regular expression 1[0-2]|0[1-9]|[1-9]: the lengths of the
\* alternatives that match at the head of s, in the order they are tried.
MonthMatch(s) ==
    IF Len(s) >= 2 /\ s[1] = "1" /\ s[2] \in {"0", "1", "2"} THEN 2
    ELSE IF Len(s) >= 2 /\ s[1] = "0" /\ s[2] \in Digit \ {"0"} THEN 2
    ELSE IF Len(s) >= 1 /\ s[1] \in Digit \ {"0"} THEN 1
    ELSE 0

\* %d is 3[01]|[12]\d|0[1-9]|[1-9]| [1-9]
DayMatch(s) ==
    IF Len(s) >= 2 /\ s[1] = "3" /\ s[2] \in {"0", "1"} THEN 2
    ELSE IF Len(s) >= 2 /\ s[1] \in {"1", "2"} /\ s[2] \in Digit THEN 2
    ELSE IF Len(s) >= 2 /\ s[1] = "0" /\ s[2] \in Digit \ {"0"} THEN 2
    ELSE IF Len(s) >= 1 /\ s[1] \in Digit \ {"0"} THEN 1
    ELSE IF Len(s) >= 2 /\ s[1] = " " /\ s[2] \in Digit \ {"0"} THEN 2
    ELSE 0

\* The month alternative the regular expression settles on: the first one
\* after which a day matches (the two-digit one, else, backtracking, the
\* one-digit one).
Backtrack(s, first) ==
    IF first = 0 THEN 0
    ELSE IF DayMatch(SliceFrom(s, first)) > 0 THEN first
    ELSE IF first = 2 /\ s[1] = "1" /\ DayMatch(SliceFrom(s, 1)) > 0 THEN 1
    ELSE 0

MonthLen(s) == Backtrack(s, MonthMatch(s))

IsLeap(y) == (y % 4 = 0 /\ y % 100 # 0) \/ y % 400 = 0

DaysIn(y, m) ==
    IF m = 2 THEN (IF IsLeap(y) THEN 29 ELSE 28)
    ELSE IF m \in {4, 6, 9, 11} THEN 30
    ELSE 31

StripSpace(s) == IF s # <<>> /\ Head(s) = " " THEN Tail(s) ELSE s

\* The date of s as 'YYYY-MM-DD', or ValueError: no match, unconverted
\* data after the match, or a day the month does not have.
IsoDate(y, m, d) ==
    IF y < 1 \/ d > DaysIn(y, m) THEN Raise("ValueError")
    ELSE Ok(ZeroPad(Decimal(y), 4) \o <<"-">> \o ZeroPad(Decimal(m), 2) \o <<"-">>
            \o ZeroPad(Decimal(d), 2))

\* s matched as four year digits, ml month characters and dl day characters.
Matched(s, ml, dl) ==
    IF ml = 0 \/ dl = 0 \/ 4 + ml + dl # Len(s) THEN Raise("ValueError")
    ELSE IsoDate(IntOfDigits(Slice(s, 0, 4), 0),
                 IntOfDigits(Slice(s, 4, 4 + ml), 0),
                 IntOfDigits(StripSpace(Slice(s, 4 + ml, 4 + ml + dl)), 0))

MatchDay(s, ml) == Matched(s, ml, DayMatch(SliceFrom(s, 4 + ml)))

StrptimeIso(s) ==
    IF Len(s) < 4 \/ ~AllDigits(Slice(s, 0, 4)) THEN Raise("ValueError")
    ELSE MatchDay(s, MonthLen(SliceFrom(s, 4)))

(***************************************************************************)
(* prepare_record                                                          *)
(***************************************************************************)
\* Lines 108-111: every numeric tag T becomes 'v' + T.
RenameTags(record) ==
    LET numeric == {t \in DOMAIN record : IsDigitTag(t)}
        renamed == {"v" \o t : t \in numeric}
    IN  [k \in renamed \cup (DOMAIN record \ numeric) |->
            IF k \in renamed
            THEN record[CHOOSE t \in numeric : k = "v" \o t]
            ELSE record[k]]

\* Line 114: v880 or issue_pid(record) or v400, evaluated left to right.
OrElse(left, right) == IF ~left.ok \/ Truthy(left.val) THEN left ELSE right

DerivePid(record) ==
    OrElse(Primary(record, "v880", None),
           OrElse(issue_pid(record), Primary(record, "v400", None)))

\* Line 123: the v91 value without dashes, or today's date without dashes.
DashesRemoved(v91, now) ==
    IF ~v91.ok THEN v91
    ELSE IF v91.val = None THEN Raise("AttributeError")
    ELSE OrElse(Ok(StripDashes(v91.val)), Ok(StripDashes(now)))

ProcessingDateDigits(record, now) == DashesRemoved(Primary(record, "v91", now), now)

JournalLen == 9

IssueLen == 17

DocumentLen == 23

ReferenceLen == 28

\* A variant that slices every PID from its first character, as if document
\* PIDs carried no leading 'S'.
DecomposeFromStart(pid) ==
    (IF Len(pid) = JournalLen THEN ("journal" :> pid) ELSE EmptyDict)
    @@ (IF Len(pid) = IssueLen
        THEN ("journal" :> Slice(pid, 0, 9)) @@ ("issue" :> pid)
        ELSE EmptyDict)
    @@ (IF Len(pid) = DocumentLen
        THEN ("journal" :> Slice(pid, 0, 9)) @@ ("issue" :> Slice(pid, 0, 17))
             @@ ("document" :> pid)
        ELSE EmptyDict)
    @@ (IF Len(pid) = ReferenceLen
        THEN ("journal" :> Slice(pid, 0, 9)) @@ ("issue" :> Slice(pid, 0, 17))
             @@ ("document" :> Slice(pid, 0, 23))
        ELSE EmptyDict)

\* Lines 125-140: the sub-identifiers the length of the PID selects.
Decompose(pid) ==
    (IF Len(pid) = JournalLen THEN ("journal" :> pid) ELSE EmptyDict)
    @@ (IF Len(pid) = IssueLen
        THEN ("journal" :> Slice(pid, 0, 9)) @@ ("issue" :> pid)
        ELSE EmptyDict)
    @@ (IF Len(pid) = DocumentLen
        THEN ("journal" :> Slice(pid, 1, 10)) @@ ("issue" :> Slice(pid, 1, 18))
             @@ ("document" :> pid)
        ELSE EmptyDict)
    @@ (IF Len(pid) = ReferenceLen
        THEN ("journal" :> Slice(pid, 1, 10)) @@ ("issue" :> Slice(pid, 1, 18))
             @@ ("document" :> Slice(pid, 0, 23))
        ELSE EmptyDict)

\* What prepare_record returns: nothing (None), or the normalized record.
Dropped == [ok |-> TRUE, some |-> FALSE]

Normalized(record) == [ok |-> TRUE, some |-> TRUE, val |-> record]

\* Lines 119-122.
Stamp(collection, record, pid) ==
    ("v992" :> Occ(collection)) @@ ("collection" :> collection)
    @@ ("code" :> pid) @@ ("v880" :> Occ(pid)) @@ record

\* Lines 124-142 on the stamped record, given what strptime makes of the date.
WithDate(record, pid, date) ==
    IF ~date.ok THEN date
    ELSE Normalized(Decompose(pid) @@ ("processing_date" :> date.val) @@ record)

\* Lines 123-142 on the stamped record, given the digits of line 123.
WithDigits(record, pid, digits) ==
    IF ~digits.ok THEN digits
    ELSE WithDate(record, pid, StrptimeIso(digits.val))

\* Lines 123-142 on the stamped record.
WithStamp(record, pid, now) == WithDigits(record, pid, ProcessingDateDigits(record, now))

\* Lines 116-142 on the tag-renamed record, given the outcome of line 114.
WithPid(collection, record, pid, now) ==
    IF ~pid.ok THEN pid
    ELSE IF ~Truthy(pid.val) THEN Dropped
    ELSE WithStamp(Stamp(collection, record, pid.val), pid.val, now)

\* Lines 114-142 on the tag-renamed record.
WithTags(collection, record, now) == WithPid(collection, record, DerivePid(record), now)

prepare_record(collection, record, now) == WithTags(collection, RenameTags(record), now)

\* prepare_record works on the dict it is given: the dict as a call that
\* raised leaves it (tags renamed; stamped too when the PID was derived).
LeftBehind(collection, record, pid) ==
    IF pid.ok /\ Truthy(pid.val) THEN Stamp(collection, record, pid.val) ELSE record

RecordAfterRaise(collection, record) ==
    LeftBehind(collection, RenameTags(record), DerivePid(RenameTags(record)))

(***************************************************************************)
(* Inputs of the record-level specification                                *)
(***************************************************************************)
Str_scl == <<"s", "c", "l">>

ISSN1 == <<"0", "0", "3", "2", "-", "2", "8", "1", "X">>

ISSN2 == <<"1", "4", "1", "4", "-", "4", "3", "1", "X">>

Alphabet ==
    <<"0", "1", "2", "3", "4", "5", "6", "7", "8", "9", "A", "B", "C", "D",
      "E", "F", "G", "H", "I", "J", "K", "L", "M", "N", "O", "P", "Q", "R",
      "S", "T", "U", "V", "W", "X", "Y", "Z">>

\* A string of n characters in which the characters at two positions less
\* than Len(Alphabet) apart differ, so that every slice of it is told apart.
PidOf(n, off) == [i \in 1..n |-> Alphabet[((i + off) % Len(Alphabet)) + 1]]

MaxOff == 1

PidLengths == {1, 8, 9, 10, 16, 17, 18, 22, 23, 24, 27, 28, 29}

TestPids == {PidOf(n, off) : n \in PidLengths, off \in 0..MaxOff}

V880Pool ==
    {EmptyDict, "880" :> Occ(<<>>)} \cup {"880" :> Occ(p) : p \in TestPids}

V35Pool ==
    {EmptyDict, "35" :> Occ(ISSN1), "35" :> <<>>, "35" :> <<("a" :> ISSN1)>>}

V36Pool ==
    {EmptyDict}
    \cup {"36" :> Occ(v) : v \in
            { <<"2", "0", "0", "2", "3">>,
              <<"2", "0", "0", "2", "2", "1">>,
              <<"2", "0", "0", "2", "1", "-", "4">>,
              <<"2", "0", "0", "2">>,
              <<"2", "0", "0">>,
              <<"2", "0", "0", "2", "a", "5">>,
              <<"2", "0", "0", "2", "-", "4">>,
              <<"2", "0", "0", "2", "0", "0", "7">>,
              <<"2", "0", "0", "2", "1", "2", "3", "4", "5", "s">> }}

V400Pool == {EmptyDict, "400" :> Occ(ISSN2)}

V91Pool ==
    {EmptyDict}
    \cup {"91" :> Occ(v) : v \in
            { <<"2", "0", "0", "2", "0", "1", "1", "5">>,
              <<"2", "0", "0", "2", "-", "0", "1", "-", "1", "5">>,
              <<"2", "0", "0", "2", "1", "3", "4", "5">>,
              <<"2", "0", "0", "2", "0", "2", "3", "0">>,
              <<"2", "0", "0", "2", "1", "1", "5">>,
              <<>> }}

RawRecords ==
    {a @@ b @@ c @@ d @@ e :
        a \in V880Pool, b \in V35Pool, c \in V36Pool, d \in V400Pool, e \in V91Pool}

Todays == {<<"2", "0", "2", "0", "-", "0", "2", "-", "2", "9">>}

Pending == [ok |-> FALSE, exc |-> "pending"]

(***************************************************************************)
(* Identifier keys                                                         *)
(***************************************************************************)
\* '_'.join(parts)
RECURSIVE Join(_)
Join(parts) ==
    IF Len(parts) = 0 THEN <<>>
    ELSE IF Len(parts) = 1 THEN parts[1]
    ELSE parts[1] \o <<"_">> \o Join(Tail(parts))

\* s.split('_')
RECURSIVE SplitFrom(_, _, _)
SplitFrom(s, i, start) ==
    IF i > Len(s) THEN <<SubSeq(s, start, Len(s))>>
    ELSE IF s[i] = "_"
         THEN <<SubSeq(s, start, i - 1)>> \o SplitFrom(s, i + 1, i + 1)
         ELSE SplitFrom(s, i + 1, start)

Split(s) == SplitFrom(s, 1, 1)

\* Lines 185 and 201: '_'.join([collection, code, processing_date.replace('-', '')])
DatedKey(e) == Join(<<e.collection, e.code, StripDashes(e.processing_date)>>)

\* Line 217: '_'.join([collection, code])
JournalKey(e) == Join(<<e.collection, e.code>>)

Kinds == {"documents", "journals", "issues"}

KeyOf(kind, e) == IF kind = "journals" THEN JournalKey(e) ELSE DatedKey(e)

Range(s) == {s[i] : i \in 1..Len(s)}

\* list(S) of a set of keys, in one order.
RECURSIVE ListOf(_)
ListOf(S) ==
    IF S = {} THEN <<>>
    ELSE LET x == CHOOSE x \in S : TRUE IN <<x>> \o ListOf(S \ {x})

(***************************************************************************)
(* The ArticleMeta catalog behind ThriftClient                             *)
(***************************************************************************)
Entity(code, date) == [collection |-> Str_scl, code |-> code, processing_date |-> date]

\* The journal a catalog entity belongs to, which the issn argument of the
\* listing operations selects on.
EntityIssn(kind, e) ==
    IF kind = "journals" THEN e.code
    ELSE IF kind = "issues" THEN Slice(e.code, 0, 9)
    ELSE Slice(e.code, 1, 10)

\* rc.documents / rc.issues / rc.journals (collection, issn=issn,
\* only_identifiers=True): the identifiers of the catalog, in its order.
Listing(kind, collection, issn) ==
    SelectSeq(remote[kind],
              LAMBDA e : e.collection = collection
                         /\ (issn = None \/ EntityIssn(kind, e) = issn))

\* add_document / add_issue / add_journal of a record: the entity with
\* that collection and code is created or replaced.
Added(catalog, record) ==
    SelectSeq(catalog, LAMBDA e : ~(e.collection = record["collection"]
                                    /\ e.code = record["code"]))
    \o <<[collection |-> record["collection"], code |-> record["code"],
          processing_date |-> record["processing_date"]]>>

\* delete_document / delete_issue / delete_journal (code, collection)
Deleted(catalog, code, collection) ==
    SelectSeq(catalog, LAMBDA e : ~(e.collection = collection /\ e.code = code))

(***************************************************************************)
(* The DataBroker (controller.py)                                          *)
(***************************************************************************)
\* The collection of the broker each kind of identifier is kept in.
CollOf(kind) == IF kind = "documents" THEN "articles" ELSE kind

\* ctrl.articles_ids, ctrl.issues_ids, ctrl.journals_ids
BrokerIds(kind) ==
    {KeyOf(kind, w[2]) : w \in {w \in ctrl.records : w[1] = CollOf(kind)}}

\* The records load_document / load_issue / load_journal (collection, code)
\* can build its metadata from.
BrokerFind(kind, collection, code) ==
    {w[2] : w \in {w \in ctrl.records :
                      /\ w[1] = CollOf(kind)
                      /\ w[2]["collection"] = collection
                      /\ w[2]["code"] = code}}

(***************************************************************************)
(* Constants of run() and load_isis_records                                *)
(***************************************************************************)
DATABASES ==
    << <<"title", "journals">>, <<"issue", "issues">>,
       <<"artigo", "articles">>, <<"bib4cit", "references">> >>

DocumentsThreshold == 2000

JournalsThreshold == 5

IssuesThreshold == 20

Threshold(kind) ==
    IF kind = "documents" THEN DocumentsThreshold
    ELSE IF kind = "journals" THEN JournalsThreshold
    ELSE IssuesThreshold

(***************************************************************************)
(* Inputs of run(): legacy databases, catalog contents, ISSN arguments     *)
(***************************************************************************)
Str(n, w) == ZeroPad(Decimal(n), w)

Y2002 == <<"2", "0", "0", "2">>

Date20020115 == <<"2", "0", "0", "2", "0", "1", "1", "5">>

Iso20020115 == <<"2", "0", "0", "2", "-", "0", "1", "-", "1", "5">>

Iso20011231 == <<"2", "0", "0", "1", "-", "1", "2", "-", "3", "1">>

IssueCode(issn, year, order) == issn \o year \o Str(order, 4)

DocCode(issn, year, order, n) == <<"S">> \o IssueCode(issn, year, order) \o Str(n, 5)

\* The legacy records a database can hold: iso name and raw record.
LegacyPool ==
    << [iso |-> "title", rec |-> ("400" :> Occ(ISSN1)) @@ ("91" :> Occ(Date20020115))],
       [iso |-> "issue", rec |-> ("35" :> Occ(ISSN1)) @@ ("36" :> Occ(Y2002 \o <<"3">>))
                                  @@ ("91" :> Occ(Date20020115))],
       [iso |-> "issue", rec |-> ("36" :> Occ(Y2002 \o <<"3">>))],
       [iso |-> "artigo", rec |-> ("880" :> Occ(DocCode(ISSN1, Y2002, 3, 1)))
                                   @@ ("91" :> Occ(Date20020115))],
       [iso |-> "artigo", rec |-> ("880" :> Occ(DocCode(ISSN2, Y2002, 1, 2)))
                                   @@ ("91" :> Occ(Date20020115))],
       [iso |-> "artigo", rec |-> ("880" :> Occ(<<"a", "b", "c">>))],
       [iso |-> "artigo", rec |-> ("91" :> Occ(Date20020115))],
       [iso |-> "bib4cit", rec |-> ("880" :> Occ(DocCode(ISSN1, Y2002, 3, 1) \o Str(1, 5)))] >>

ISSN3 == <<"2", "2", "2", "2", "-", "3", "3", "3", "X">>

\* The entities the catalog can hold at the start.
RemotePool ==
    << [kind |-> "journals", e |-> Entity(ISSN3, Iso20020115)],
       [kind |-> "issues", e |-> Entity(IssueCode(ISSN1, Y2002, 3), Iso20020115)],
       [kind |-> "issues", e |-> Entity(IssueCode(ISSN1, Y2002, 9), Iso20020115)],
       [kind |-> "documents", e |-> Entity(DocCode(ISSN1, Y2002, 3, 1), Iso20020115)],
       [kind |-> "documents", e |-> Entity(DocCode(ISSN1, Y2002, 3, 1), Iso20011231)],
       [kind |-> "documents", e |-> Entity(DocCode(ISSN1, Y2002, 3, 7), Iso20020115)],
       [kind |-> "documents", e |-> Entity(DocCode(ISSN2, Y2002, 1, 8), Iso20020115)] >>

MaxFaults == 2

MaxPermute == 2

IsoNames == {DATABASES[i][1] : i \in 1..Len(DATABASES)}

\* The databases holding the pool's records numbered in S, in pool order.
IsosOf(S) ==
    [name \in IsoNames |->
        LET chosen == SelectSeq([i \in 1..Len(LegacyPool) |-> i],
                                LAMBDA i : i \in S /\ LegacyPool[i].iso = name)
        IN  [j \in 1..Len(chosen) |-> LegacyPool[chosen[j]].rec]]

\* The catalog holding the pool's entities numbered in S, in pool order.
RemoteOf(S) ==
    [kind \in Kinds |->
        LET chosen == SelectSeq([i \in 1..Len(RemotePool) |-> i],
                                LAMBDA i : i \in S /\ RemotePool[i].kind = kind)
        IN  [j \in 1..Len(chosen) |-> RemotePool[chosen[j]].e]]

\* A catalog holds one entity per collection and code.
OneEntityPerCode(S) ==
    \A i, j \in S :
        (RemotePool[i].kind = RemotePool[j].kind
         /\ RemotePool[i].e.code = RemotePool[j].e.code) => i = j

\* A catalog of n entities of one kind which the legacy source does not hold.
BulkEntity(kind, i) ==
    IF kind = "journals"
    THEN Entity(<<"9", "0", "0", "0", "-">> \o Str(i, 4), Iso20020115)
    ELSE IF kind = "issues"
    THEN Entity(IssueCode(ISSN3, Y2002, i), Iso20020115)
    ELSE Entity(DocCode(ISSN3, Y2002, 1, i), Iso20020115)

BulkRemote(kind, n) ==
    [k \in Kinds |-> IF k = kind THEN [i \in 1..n |-> BulkEntity(kind, i)] ELSE <<>>]

(***************************************************************************)
(* Initial states                                                          *)
(***************************************************************************)
NoIds == [kind \in Kinds |-> <<>>]

NoPlan == [new |-> NoIds, to_remove |-> NoIds]

NewBroker == [session |-> "none", exits |-> 0, records |-> {}]

NoScan == [db |-> 1, open |-> FALSE, ndx |-> 0, log |-> <<>>]

\* The state of run() at its first line.
RunStart ==
    /\ articlemeta = NoIds
    /\ ctrl = NewBroker
    /\ scan = NoScan
    /\ plan = NoPlan
    /\ idx = 1
    /\ calls = <<>>
    /\ queries = <<>>
    /\ failure = None

HarnessIdle ==
    /\ raw = EmptyDict
    /\ ipid = Pending
    /\ prepared = Pending
    /\ rpc = "idle"

\* The record-level specification does not execute run().
RunIdle ==
    /\ issns = <<>>
    /\ isos = IsosOf({})
    /\ remote = RemoteOf({})
    /\ pc = "idle"
    /\ run = 1
    /\ faults = 0
    /\ RunStart

\* The executions explored: the legacy records (numbers of LegacyPool), the
\* catalog entities (numbers of RemotePool) and the ISSN arguments of each.
Case(L, R, args) == [L |-> L, R |-> R, issns |-> args]

Cases ==
    { \* nothing anywhere; a catalog that already agrees with the legacy source
      Case({}, {}, <<>>),
      Case({1, 2, 4}, {2, 4}, <<>>),
      \* additions only, of every kind, with a bibliographic reference
      Case({1, 2, 4, 5, 8}, {}, <<>>),
      Case({4, 5, 6}, {}, <<>>),
      \* removals only: two documents; one entity of every kind
      Case({}, {6, 7}, <<>>),
      Case({}, {1, 3, 6}, <<>>),
      \* additions and removals together
      Case({4, 5}, {6, 7}, <<>>),
      Case({1, 2, 4}, {1, 3, 6}, <<>>),
      \* a document whose processing date differs in the catalog
      Case({4}, {5}, <<>>),
      Case({4, 5}, {5, 6}, <<>>),
      \* records that cannot be normalized, carry no PID, or a PID of no known length
      Case({3, 4}, {}, <<>>),
      Case({1, 3}, {6}, <<>>),
      Case({4, 6, 7}, {}, <<>>),
      Case({7}, {6}, <<>>),
      \* ISSN arguments
      Case({1, 2, 4, 5, 8}, {}, <<ISSN1>>),
      Case({4, 5}, {6, 7}, <<ISSN1>>),
      Case({4, 5}, {5, 7}, <<ISSN2>>),
      Case({4, 6}, {}, <<ISSN1>>),
      Case({5, 7}, {6}, <<ISSN1>>),
      Case({1, 4, 5}, {6, 7}, <<ISSN1, ISSN2>>) }

InitCases ==
    \E c \in Cases :
        /\ OneEntityPerCode(c.R)
        /\ isos = IsosOf(c.L)
        /\ remote = RemoteOf(c.R)
        /\ issns = c.issns

\* A catalog holding as many entities unknown to the legacy source as a
\* removal threshold allows, or one more (for documents: one more).
InitBulk ==
    \E kind \in Kinds, over \in {0, 1}, L \in {{}, {4}} :
        /\ kind = "documents" => over = 1 /\ L = {4}
        /\ isos = IsosOf(L)
        /\ remote = BulkRemote(kind, Threshold(kind) + over)
        /\ issns = <<>>

Init ==
    /\ InitCases \/ InitBulk
    /\ today \in Todays
    /\ pc = "list_documents"
    /\ run = 1
    /\ faults = 0
    /\ RunStart
    /\ HarnessIdle

(***************************************************************************)
(* run(): exceptions                                                       *)
(***************************************************************************)
\* The errors a ThriftClient call raises.
RemoteErrors == {"ServerError", "UnauthorizedAccess"}

MayFail == faults < MaxFaults

\* A variant without the with statement: an exception leaves run() and the
\* broker stays as it was.
PropagateLeaking(exc, broker) ==
    /\ pc' = "aborted"
    /\ failure' = <<exc>>
    /\ ctrl' = broker

\* An exception leaves run(): the with statement of line 238, when it was
\* entered, releases the broker on the way out.
Propagate(exc, broker) ==
    /\ pc' = "aborted"
    /\ failure' = <<exc>>
    /\ ctrl' = IF broker.session = "entered"
               THEN [broker EXCEPT !.session = "exited", !.exits = @ + 1]
               ELSE broker

(***************************************************************************)
(* load_articlemeta_documents_ids, _issues_ids, _journals_ids              *)
(***************************************************************************)
\* A variant that ignores the issns argument: one unfiltered query.
UnfilteredTargets == <<None>>

\* for issn in issns or [None]
IssnTargets == IF issns = <<>> THEN <<None>> ELSE issns

\* A query of the listing operations: "ok" when it returns, else what it raises.
Query(kind, issn, result) == [kind |-> kind, issn |-> issn, result |-> result]

\* The list the loader returns: the keys of every item of every query.
RECURSIVE LoadedIds(_, _, _)
LoadedIds(kind, collection, targets) ==
    IF targets = <<>> THEN <<>>
    ELSE LET items == Listing(kind, collection, Head(targets))
         IN  [i \in 1..Len(items) |-> KeyOf(kind, items[i])]
             \o LoadedIds(kind, collection, Tail(targets))

ListingReturns(kind, next) ==
    /\ articlemeta' = [articlemeta EXCEPT ![kind] = LoadedIds(kind, Str_scl, IssnTargets)]
    /\ queries' = queries
                   \o [i \in 1..Len(IssnTargets) |-> Query(kind, IssnTargets[i], "ok")]
    /\ pc' = next
    /\ UNCHANGED <<ctrl, failure, faults>>

\* A variant in which the loader catches what the k-th query raises and
\* returns the identifiers it has so far: run() goes on with a partial list.
ListingSwallowed(kind, next) ==
    /\ MayFail
    /\ \E k \in 1..Len(IssnTargets), exc \in RemoteErrors :
        /\ queries' = queries \o [i \in 1..k |->
                           Query(kind, IssnTargets[i], IF i < k THEN "ok" ELSE exc)]
        /\ articlemeta' = [articlemeta EXCEPT ![kind] =
                               LoadedIds(kind, Str_scl, SubSeq(IssnTargets, 1, k - 1))]
    /\ pc' = next
    /\ faults' = faults + 1
    /\ UNCHANGED <<ctrl, failure>>

\* The k-th query of the loader raises: nothing catches it up to run().
ListingRaises(kind, next) ==
    /\ MayFail
    /\ \E k \in 1..Len(IssnTargets), exc \in RemoteErrors :
        /\ queries' = queries \o [i \in 1..k |->
                           Query(kind, IssnTargets[i], IF i < k THEN "ok" ELSE exc)]
        /\ Propagate(exc, ctrl)
    /\ faults' = faults + 1
    /\ UNCHANGED articlemeta

LoadIds(kind, at, next) ==
    /\ pc = at
    /\ ListingReturns(kind, next) \/ ListingRaises(kind, next)
    /\ UNCHANGED <<envvars, today, run, scan, plan, idx, calls, recvars>>

load_articlemeta_documents_ids == LoadIds("documents", "list_documents", "list_issues")

load_articlemeta_issues_ids == LoadIds("issues", "list_issues", "list_journals")

load_articlemeta_journals_ids == LoadIds("journals", "list_journals", "enter")

(***************************************************************************)
(* with DataBroker(uuid.uuid4()) as ctrl                                   *)
(***************************************************************************)
EnterBroker ==
    /\ pc = "enter"
    /\ ctrl' = [ctrl EXCEPT !.session = "entered"]
    /\ pc' = "scan"
    /\ UNCHANGED <<envvars, today, run, articlemeta, scan, plan, idx, calls, queries,
                   failure, faults, recvars>>

(***************************************************************************)
(* load_isis_records, drained by the loop of lines 239-240                 *)
(***************************************************************************)
\* Lines 157-163. The handler calls prepare_record again on the same dict
\* (after the debugger breakpoint of line 160): what the second call raises
\* leaves the generator; were it to return, the record would be skipped.
Retried(again) ==
    IF again.ok THEN [outcome |-> "integrity"] ELSE [outcome |-> "raise", exc |-> again.exc]

IntegrityHandler(collection, record, now) ==
    Retried(prepare_record(collection, RecordAfterRaise(collection, record), now))

\* A variant without the test of line 168: every normalized record is yielded.
IssnFilterOff(record, wanted) == [outcome |-> "yield", rec |-> record]

\* Lines 168-169, for a non-empty issns.
IssnFilter(record, wanted) ==
    IF "journal" \notin DOMAIN record THEN [outcome |-> "raise", exc |-> "KeyError"]
    ELSE IF record["journal"] \notin Range(wanted) THEN [outcome |-> "filtered"]
    ELSE [outcome |-> "yield", rec |-> record]

\* Lines 157-171: one turn of the loop over the records of a database.
Prepared(collection, record, wanted, now, first) ==
    IF ~first.ok THEN IntegrityHandler(collection, record, now)
    ELSE IF ~first.some THEN [outcome |-> "dropped"]
    ELSE IF wanted # <<>> THEN IssnFilter(first.val, wanted)
    ELSE [outcome |-> "yield", rec |-> first.val]

ScanStep(collection, record, wanted, now) ==
    Prepared(collection, record, wanted, now, prepare_record(collection, record, now))

IsoOf(db) == DATABASES[db][1]

CollectionOf(db) == DATABASES[db][2]

Logged(step) == [iso |-> IsoOf(scan.db), ndx |-> scan.ndx + 1, outcome |-> step.outcome]

\* Lines 148-151: the ISO file of a database does not exist.
Missing(db) == [iso |-> IsoOf(db), ndx |-> 0, outcome |-> "missing"]

\* Line 149: IsisDataBroker(isofile)
OpenIso ==
    /\ pc = "scan"
    /\ ~scan.open
    /\ \/ /\ scan' = [scan EXCEPT !.open = TRUE, !.ndx = 0]
          /\ UNCHANGED <<pc, ctrl, failure, faults>>
       \/ /\ MayFail
          /\ faults' = faults + 1
          /\ Propagate("ValueError", ctrl)
          /\ scan' = [scan EXCEPT !.log = Append(@, Missing(scan.db))]
    /\ UNCHANGED <<envvars, today, run, articlemeta, plan, idx, calls, queries, recvars>>

\* ScanStep for every record of the legacy pool and every issns argument of
\* the executions explored, evaluated once.
ScanSteps ==
    [record \in {LegacyPool[i].rec : i \in DOMAIN LegacyPool},
     wanted \in {c.issns : c \in Cases}, now \in Todays |->
        ScanStep(Str_scl, record, wanted, now)]

\* Lines 153-171 and 240: the next record is read and normalized, and
\* ctrl.write_record stores the pair the generator yields.
ReadRecord ==
    /\ pc = "scan"
    /\ scan.open
    /\ scan.ndx < Len(isos[IsoOf(scan.db)])
    /\ \E step \in {ScanSteps[isos[IsoOf(scan.db)][scan.ndx + 1], issns, today]} :
           /\ scan' = [scan EXCEPT !.ndx = @ + 1, !.log = Append(@, Logged(step))]
           /\ IF step.outcome = "raise"
              THEN Propagate(step.exc, ctrl)
              ELSE /\ ctrl' = IF step.outcome = "yield"
                              THEN [ctrl EXCEPT !.records =
                                        @ \cup {<<CollectionOf(scan.db), step.rec>>}]
                              ELSE ctrl
                   /\ UNCHANGED <<pc, failure>>
    /\ UNCHANGED <<envvars, today, run, articlemeta, plan, idx, calls, queries, faults,
                   recvars>>

\* The records of a database are exhausted: the next database, or the end
\* of the generator.
EndIso ==
    /\ pc = "scan"
    /\ scan.open
    /\ scan.ndx = Len(isos[IsoOf(scan.db)])
    /\ IF scan.db < Len(DATABASES)
       THEN /\ scan' = [scan EXCEPT !.db = @ + 1, !.open = FALSE, !.ndx = 0]
            /\ pc' = pc
       ELSE /\ scan' = [scan EXCEPT !.open = FALSE]
            /\ pc' = "plan"
    /\ UNCHANGED <<envvars, today, run, articlemeta, ctrl, plan, idx, calls, queries,
                   failure, faults, recvars>>

(***************************************************************************)
(* run(), lines 242-252: the plan                                          *)
(***************************************************************************)
Injective(f) == \A i, j \in DOMAIN f : f[i] = f[j] => i = j

\* list(S - T) of line 250: the keys of list `ids` that are not in `others`,
\* once each.
Difference(ids, others) ==
    LET kept == SelectSeq(ids, LAMBDA k : k \notin others)
    IN  IF Injective(kept) THEN kept ELSE ListOf(Range(kept))

\* The order of list(set) is not specified: every order of a short list,
\* the order above of a longer one.
Orderings(list) ==
    IF Len(list) > MaxPermute THEN {list}
    ELSE {[i \in 1..Len(list) |-> list[p[i]]] :
            p \in {q \in [1..Len(list) -> 1..Len(list)] : Injective(q)}}

\* new_documents, new_issues, new_journals (lines 246-248)
NewList(kind) == Difference(ListOf(BrokerIds(kind)), Range(articlemeta[kind]))

\* to_remove_documents, to_remove_issues, to_remove_journals (lines 250-252)
ToRemoveList(kind) == Difference(articlemeta[kind], BrokerIds(kind))

\* The two lists of a kind, each in one of its possible orders.
Lists(kind) ==
    {[new |-> n, to_remove |-> r] :
        n \in UNION {Orderings(l) : l \in {NewList(kind)}},
        r \in UNION {Orderings(l) : l \in {ToRemoveList(kind)}}}

Plan ==
    /\ pc = "plan"
    /\ \E d \in Lists("documents"), i \in Lists("issues"), j \in Lists("journals") :
        plan' = [new |-> [documents |-> d.new, issues |-> i.new, journals |-> j.new],
                 to_remove |-> [documents |-> d.to_remove, issues |-> i.to_remove,
                                journals |-> j.to_remove]]
    /\ pc' = "add_documents"
    /\ idx' = 1
    /\ UNCHANGED <<envvars, today, run, articlemeta, ctrl, scan, calls, queries, failure,
                   faults, recvars>>

(***************************************************************************)
(* run(), lines 254-417: the six phases                                    *)
(***************************************************************************)
Call(op, kind, collection, code, result) ==
    [op |-> op, kind |-> kind, collection |-> collection, code |-> code,
     result |-> result]

\* A variant that takes the kinds in the order of the listings (documents,
\* issues, journals).
AfterRemovalAsListed(kind) ==
    IF kind = "documents" THEN "add_issues"
    ELSE IF kind = "issues" THEN "add_journals"
    ELSE "exit"

\* A variant that ends the run after the journals: no phase for the issues.
AfterRemovalOfJournalsExit(kind) ==
    IF kind = "documents" THEN "add_journals" ELSE "exit"

\* The phase after the removal phase of a kind (documents, journals, issues).
AfterRemoval(kind) ==
    IF kind = "documents" THEN "add_journals"
    ELSE IF kind = "journals" THEN "add_issues"
    ELSE "exit"

\* ctrl.load_document / load_journal / load_issue raises or returns nothing:
\* the error is logged and the loop continues (lines 262-276).
LoadFails(kind, item) ==
    /\ \E result \in {"raise", "empty"} :
        /\ MayFail \/ (result = "empty" /\ BrokerFind(kind, item[1], item[2]) = {})
        /\ faults' = IF BrokerFind(kind, item[1], item[2]) = {} /\ result = "empty"
                     THEN faults ELSE faults + 1
        /\ calls' = Append(calls, Call("load", kind, item[1], item[2], result))
    /\ idx' = idx + 1
    /\ UNCHANGED <<pc, remote, ctrl, failure>>

\* The metadata is loaded and rc.add_* is called with it (lines 278-291).
AddReturns(kind, item) ==
    /\ \E meta \in BrokerFind(kind, item[1], item[2]) :
        remote' = [remote EXCEPT ![kind] = Added(@, meta)]
    /\ calls' = calls \o <<Call("load", kind, item[1], item[2], "ok"),
                           Call("add", kind, item[1], item[2], "ok")>>
    /\ idx' = idx + 1
    /\ UNCHANGED <<pc, ctrl, failure, faults>>

\* rc.add_* raises: ServerError is logged and the loop continues, any other
\* error leaves run() (lines 278-285).
AddRaises(kind, item) ==
    /\ MayFail
    /\ BrokerFind(kind, item[1], item[2]) # {}
    /\ faults' = faults + 1
    /\ \E exc \in RemoteErrors :
        /\ calls' = calls \o <<Call("load", kind, item[1], item[2], "ok"),
                               Call("add", kind, item[1], item[2], exc)>>
        /\ IF exc = "ServerError"
           THEN /\ idx' = idx + 1
                /\ UNCHANGED <<pc, ctrl, failure>>
           ELSE /\ Propagate(exc, ctrl)
                /\ UNCHANGED idx
    /\ UNCHANGED remote

\* One turn of an addition loop.
AddItem(kind) ==
    /\ pc = "add_" \o kind
    /\ idx <= Len(plan.new[kind])
    /\ \E item \in {Split(plan.new[kind][idx])} :
           LoadFails(kind, item) \/ AddReturns(kind, item) \/ AddRaises(kind, item)
    /\ UNCHANGED <<issns, isos, today, run, articlemeta, scan, plan, queries, recvars>>

\* The addition loop is over: the removal phase of the kind begins.
EndAdd(kind) ==
    /\ pc = "add_" \o kind
    /\ idx > Len(plan.new[kind])
    /\ pc' = "remove_" \o kind
    /\ idx' = 1
    /\ UNCHANGED <<envvars, today, run, articlemeta, ctrl, scan, plan, calls, queries,
                   failure, faults, recvars>>

\* if not len(to_remove) > threshold (lines 298, 352, 408)
WithinThreshold(kind) == ~(Len(plan.to_remove[kind]) > Threshold(kind))

DeleteReturns(kind, item) ==
    /\ remote' = [remote EXCEPT ![kind] = Deleted(@, item[2], item[1])]
    /\ calls' = Append(calls, Call("delete", kind, item[1], item[2], "ok"))
    /\ idx' = idx + 1
    /\ UNCHANGED <<pc, ctrl, failure, faults>>

\* rc.delete_* raises: UnauthorizedAccess is logged and the loop continues,
\* any other error leaves run() (lines 301-304).
DeleteRaises(kind, item) ==
    /\ MayFail
    /\ faults' = faults + 1
    /\ \E exc \in RemoteErrors :
        /\ calls' = Append(calls, Call("delete", kind, item[1], item[2], exc))
        /\ IF exc = "UnauthorizedAccess"
           THEN /\ idx' = idx + 1
                /\ UNCHANGED <<pc, ctrl, failure>>
           ELSE /\ Propagate(exc, ctrl)
                /\ UNCHANGED idx
    /\ UNCHANGED remote

\* One turn of a removal loop.
RemoveItem(kind) ==
    /\ pc = "remove_" \o kind
    /\ WithinThreshold(kind)
    /\ idx <= Len(plan.to_remove[kind])
    /\ \E item \in {Split(plan.to_remove[kind][idx])} :
           DeleteReturns(kind, item) \/ DeleteRaises(kind, item)
    /\ UNCHANGED <<issns, isos, today, run, articlemeta, scan, plan, queries, recvars>>

\* The removal phase is over: its loop is exhausted, or the list is longer
\* than the threshold and the whole batch is skipped.
EndRemove(kind) ==
    /\ pc = "remove_" \o kind
    /\ ~WithinThreshold(kind) \/ idx > Len(plan.to_remove[kind])
    /\ pc' = AfterRemoval(kind)
    /\ idx' = 1
    /\ UNCHANGED <<envvars, today, run, articlemeta, ctrl, scan, plan, calls, queries,
                   failure, faults, recvars>>

AddDocuments == AddItem("documents") \/ EndAdd("documents")

RemoveDocuments == RemoveItem("documents") \/ EndRemove("documents")

AddJournals == AddItem("journals") \/ EndAdd("journals")

RemoveJournals == RemoveItem("journals") \/ EndRemove("journals")

AddIssues == AddItem("issues") \/ EndAdd("issues")

RemoveIssues == RemoveItem("issues") \/ EndRemove("issues")

\* The with block ends and line 419 logs that the process finished.
ExitBroker ==
    /\ pc = "exit"
    /\ ctrl' = [ctrl EXCEPT !.session = "exited", !.exits = @ + 1]
    /\ pc' = "finished"
    /\ UNCHANGED <<envvars, today, run, articlemeta, scan, plan, idx, calls, queries,
                   failure, faults, recvars>>

\* run() is executed again, on the same legacy databases and on the catalog
\* as the first execution left it.
Rerun ==
    /\ pc = "finished"
    /\ run = 1
    /\ run' = 2
    /\ pc' = "list_documents"
    /\ articlemeta' = NoIds
    /\ ctrl' = NewBroker
    /\ scan' = NoScan
    /\ plan' = NoPlan
    /\ idx' = 1
    /\ calls' = <<>>
    /\ queries' = <<>>
    /\ failure' = None
    /\ UNCHANGED <<envvars, today, faults, recvars>>

Next ==
    \/ load_articlemeta_documents_ids
    \/ load_articlemeta_issues_ids
    \/ load_articlemeta_journals_ids
    \/ EnterBroker
    \/ OpenIso
    \/ ReadRecord
    \/ EndIso
    \/ Plan
    \/ AddDocuments
    \/ RemoveDocuments
    \/ AddJournals
    \/ RemoveJournals
    \/ AddIssues
    \/ RemoveIssues
    \/ ExitBroker
    \/ Rerun

Spec == Init /\ [][Next]_vars

\* run() is sequential code whose loops are over finite lists: a statement
\* that can execute does execute.
\* The executions of Init in which the catalog holds no more than
\* DocumentsThreshold documents and the calls fail one time fewer.
InitFair ==
    /\ InitCases \/ InitBulk
    /\ Len(remote["documents"]) <= DocumentsThreshold
    /\ today \in Todays
    /\ pc = "list_documents"
    /\ run = 1
    /\ faults = 1
    /\ RunStart
    /\ HarnessIdle

SpecFair == InitFair /\ [][Next]_vars /\ WF_vars(Next)

(***************************************************************************)
(* SpecRecord: one raw record through issue_pid and prepare_record         *)
(***************************************************************************)
InitRecord ==
    /\ raw \in RawRecords
    /\ today \in Todays
    /\ RunIdle
    /\ ipid = Pending
    /\ prepared = Pending
    /\ rpc = "input"

\* issue_pid is called on a record whose tags are renamed (line 114).
CallIssuePid ==
    /\ rpc = "input"
    /\ ipid' = issue_pid(RenameTags(raw))
    /\ rpc' = "issue_pid"
    /\ UNCHANGED <<raw, today, prepared, envvars, runvars>>

CallPrepareRecord ==
    /\ rpc = "issue_pid"
    /\ prepared' = prepare_record(Str_scl, raw, today)
    /\ rpc' = "prepared"
    /\ UNCHANGED <<raw, today, ipid, envvars, runvars>>

NextRecord == CallIssuePid \/ CallPrepareRecord

SpecRecord == InitRecord /\ [][NextRecord]_vars

(***************************************************************************)
(* Properties of issue_pid and prepare_record (SpecRecord)                 *)
(***************************************************************************)
\* The number a string of decimal digits denotes, read from its last digit.
RECURSIVE ValueOf(_)
ValueOf(s) ==
    IF s = <<>> THEN 0
    ELSE DigitVal[s[Len(s)]] + 10 * ValueOf(SubSeq(s, 1, Len(s) - 1))

\* The length of the run of decimal digits s starts with.
RunLength(s) ==
    CHOOSE k \in 0..Len(s) :
        /\ \A i \in 1..k : s[i] \in Digit
        /\ k < Len(s) => s[k + 1] \notin Digit

\* The raw record carries a string under the tag.
HasString(tag) ==
    /\ tag \in DOMAIN raw
    /\ raw[tag] # <<>>
    /\ "_" \in DOMAIN raw[tag][1]
    /\ raw[tag][1]["_"] # None

Example(v36, pid) ==
    (raw["35"][1]["_"] = ISSN1 /\ raw["36"][1]["_"] = v36) => ipid = Ok(ISSN1 \o pid)

\* C10: for a record with a string v35 and a string v36, issue_pid returns
\* v35, then the first four characters of v36, then an order string: at
\* least four decimal digits, without needless leading zeros, whose number
\* is the one the leading run of digits of v36[4:] denotes (0 for an empty
\* run). The four examples of the docstring come out as written there.
C10_IssuePidDerivation ==
    (rpc # "input" /\ HasString("35") /\ HasString("36")) =>
        LET v35 == raw["35"][1]["_"]
            v36 == raw["36"][1]["_"]
            year == [i \in 1..Min(4, Len(v36)) |-> v36[i]]
            rest == [i \in 1..(Len(v36) - Len(year)) |-> v36[i + 4]]
            head == Len(v35) + Len(year)
        IN  /\ ipid.ok
            /\ Len(ipid.val) >= head + 4
            /\ \A i \in 1..Len(v35) : ipid.val[i] = v35[i]
            /\ \A i \in 1..Len(year) : ipid.val[Len(v35) + i] = year[i]
            /\ \A i \in (head + 1)..Len(ipid.val) : ipid.val[i] \in Digit
            /\ Len(ipid.val) > head + 4 => ipid.val[head + 1] # "0"
            /\ ValueOf(SubSeq(ipid.val, head + 1, Len(ipid.val)))
                   = ValueOf(SubSeq(rest, 1, RunLength(rest)))
            /\ Example(<<"2", "0", "0", "2", "3">>, <<"2", "0", "0", "2", "0", "0", "0", "3">>)
            /\ Example(<<"2", "0", "0", "2", "2", "1">>,
                       <<"2", "0", "0", "2", "0", "0", "2", "1">>)
            /\ Example(<<"2", "0", "0", "2", "1", "-", "4">>,
                       <<"2", "0", "0", "2", "0", "0", "0", "1">>)
            /\ Example(<<"2", "0", "0", "2">>, <<"2", "0", "0", "2", "0", "0", "0", "0">>)

\* issue_pid has returned for v35 0032-281X and v36 20021-4.
C10_Witness ==
    /\ rpc = "issue_pid"
    /\ HasString("35") /\ HasString("36")
    /\ raw["35"][1]["_"] = ISSN1
    /\ raw["36"][1]["_"] = <<"2", "0", "0", "2", "1", "-", "4">>
    /\ ipid = Ok(ISSN1 \o <<"2", "0", "0", "2", "0", "0", "0", "1">>)

\* The PID of the raw record: its v880 when it has one, else the code the
\* normalized record carries.
PidOfRaw ==
    IF HasString("880") /\ raw["880"][1]["_"] # <<>> THEN raw["880"][1]["_"]
    ELSE prepared.val["code"]

\* C9: the normalized record of a PID of length 9 has journal = pid and
\* neither issue nor document; of length 17, journal = pid[0:9], issue = pid
\* and no document; of length 23, journal = pid[1:10], issue = pid[1:18],
\* document = pid; of length 28, journal = pid[1:10], issue = pid[1:18],
\* document = pid[0:23]; its code is the whole PID in the four cases.
C9_PidDecomposition ==
    (rpc = "prepared" /\ prepared.ok /\ prepared.some) =>
        LET r == prepared.val
            pid == PidOfRaw
        IN  /\ Len(pid) \in {9, 17, 23, 28} => r["code"] = pid
            /\ Len(pid) = 9 =>
                /\ r["journal"] = pid
                /\ "issue" \notin DOMAIN r
                /\ "document" \notin DOMAIN r
            /\ Len(pid) = 17 =>
                /\ r["journal"] = [i \in 1..9 |-> pid[i]]
                /\ r["issue"] = pid
                /\ "document" \notin DOMAIN r
            /\ Len(pid) = 23 =>
                /\ r["journal"] = [i \in 1..9 |-> pid[i + 1]]
                /\ r["issue"] = [i \in 1..17 |-> pid[i + 1]]
                /\ r["document"] = pid
            /\ Len(pid) = 28 =>
                /\ r["journal"] = [i \in 1..9 |-> pid[i + 1]]
                /\ r["issue"] = [i \in 1..17 |-> pid[i + 1]]
                /\ r["document"] = [i \in 1..23 |-> pid[i]]

\* prepare_record has normalized a record whose v880 is a PID of 28 characters.
C9_Witness ==
    /\ rpc = "prepared"
    /\ prepared.ok /\ prepared.some
    /\ HasString("880")
    /\ Len(raw["880"][1]["_"]) = 28
    /\ "document" \in DOMAIN prepared.val

(***************************************************************************)
(* Properties of run() (Spec)                                              *)
(***************************************************************************)
RunEnded == pc \in {"finished", "aborted"}

PlanComputed ==
    pc \in {"add_documents", "remove_documents", "add_journals", "remove_journals",
            "add_issues", "remove_issues", "exit", "finished"}

\* The calls of this run of one operation on one kind of entity.
CallsOf(op, kind) == {i \in DOMAIN calls : calls[i].op = op /\ calls[i].kind = kind}

\* The operation was called for the identifier key.
Attempted(op, kind, key) ==
    \E i \in CallsOf(op, kind) :
        calls[i].collection = Split(key)[1] /\ calls[i].code = Split(key)[2]

AllCallsReturned == \A i \in DOMAIN calls : calls[i].result = "ok"

FailedQuery == \E i \in DOMAIN queries : queries[i].result # "ok"

MissingIso == \E i \in DOMAIN scan.log : scan.log[i].outcome = "missing"

\* C1: a to-remove list longer than the threshold of its kind issues no
\* delete call of that kind; for a list at or below the threshold, a run
\* that has ended has attempted a delete call for every key of the list.
C1_ThresholdGating ==
    \A kind \in Kinds :
        /\ Len(plan.to_remove[kind]) > Threshold(kind) => CallsOf("delete", kind) = {}
        /\ (RunEnded /\ Len(plan.to_remove[kind]) <= Threshold(kind)) =>
               \A i \in DOMAIN plan.to_remove[kind] :
                   Attempted("delete", kind, plan.to_remove[kind][i])

\* C2: in a run that has ended, when the load of a to-add key failed (it
\* raised or returned nothing), no add call was issued for that key, every
\* key of the same to-add list had its load attempted and every key whose
\* load succeeded had its add call submitted.
C2_LoadIsolation ==
    RunEnded =>
        \A kind \in Kinds :
            (\E f \in CallsOf("load", kind) : calls[f].result # "ok") =>
                /\ \A f \in CallsOf("load", kind) :
                       calls[f].result # "ok" =>
                           ~\E a \in CallsOf("add", kind) : calls[a].code = calls[f].code
                /\ \A i \in DOMAIN plan.new[kind] :
                       Attempted("load", kind, plan.new[kind][i])
                /\ \A l \in CallsOf("load", kind) :
                       calls[l].result = "ok" =>
                           \E a \in CallsOf("add", kind) : calls[a].code = calls[l].code

\* C3: the plan of the second of two executions in a row is empty, here
\* even with no call of either execution failing and a catalog too small for
\* any removal list to exceed its threshold.
C3_SecondPlanEmpty ==
    (/\ run = 2
     /\ PlanComputed
     /\ faults = 0
     /\ \A kind \in Kinds : Len(remote[kind]) <= Threshold(kind)) =>
        \A kind \in Kinds : plan.new[kind] = <<>> /\ plan.to_remove[kind] = <<>>

\* The (collection, code) pairs the legacy source holds in scope of the run.
LegacyInScope(kind) ==
    {<<w[2]["collection"], w[2]["code"]>> : w \in {w \in ctrl.records : w[1] = CollOf(kind)}}

\* The (collection, code) pairs of the catalog in scope of the run.
RemoteInScope(kind) ==
    {<<e.collection, e.code>> :
        e \in UNION {Range(Listing(kind, Str_scl, IssnTargets[i])) : i \in DOMAIN IssnTargets}}

\* C4: after an execution in which every call returned and no removal list
\* exceeded its threshold, the catalog holds, for each kind, exactly the
\* (collection, code) entities of the legacy source in scope, whatever the
\* processing dates were at the start.
C4_Convergence ==
    (/\ pc = "finished"
     /\ run = 1
     /\ AllCallsReturned
     /\ \A kind \in Kinds : WithinThreshold(kind)) =>
        \A kind \in Kinds : RemoteInScope(kind) = LegacyInScope(kind)

\* The journal a PID of one of the four known lengths belongs to.
JournalOfPid(pid) ==
    IF Len(pid) \in {23, 28} THEN [i \in 1..9 |-> pid[i + 1]] ELSE [i \in 1..9 |-> pid[i]]

\* C5: with a non-empty ISSN argument, every pair the generator yields has
\* a record whose journal is one of the ISSNs; a legacy record whose PID
\* belongs to another journal is never yielded.
C5_IssnFilter ==
    issns # <<>> =>
        /\ \A w \in ctrl.records :
               "journal" \in DOMAIN w[2] /\ w[2]["journal"] \in Range(issns)
        /\ \A i \in DOMAIN scan.log :
               (scan.log[i].outcome = "yield"
                /\ "880" \in DOMAIN isos[scan.log[i].iso][scan.log[i].ndx]) =>
                   LET pid == isos[scan.log[i].iso][scan.log[i].ndx]["880"][1]["_"]
                   IN  Len(pid) \in {9, 17, 23, 28} /\ JournalOfPid(pid) \in Range(issns)

\* The scan is over, with an ISSN argument: a record was filtered out and
\* another one was yielded and written.
C5_Witness ==
    /\ issns # <<>>
    /\ pc = "plan"
    /\ \E i \in DOMAIN scan.log : scan.log[i].outcome = "filtered"
    /\ \E i \in DOMAIN scan.log : scan.log[i].outcome = "yield"
    /\ ctrl.records # {}

\* C6: a record prepare_record raises for is skipped: the turn of the loop
\* that read it ends as an integrity error, and not with the exception
\* leaving the generator.
C6_IntegrityRecovery ==
    \A i \in DOMAIN scan.log :
        (/\ scan.log[i].outcome # "missing"
         /\ ~prepare_record(Str_scl, isos[scan.log[i].iso][scan.log[i].ndx], today).ok) =>
            scan.log[i].outcome = "integrity"

\* C7: once a listing query has failed or a legacy database could not be
\* opened, the run is over with that failure and has issued no add and no
\* delete call.
C7_FatalFailures ==
    (FailedQuery \/ MissingIso) =>
        /\ pc = "aborted"
        /\ failure = IF MissingIso THEN <<"ValueError">>
                     ELSE <<queries[Len(queries)].result>>
        /\ \A i \in DOMAIN calls : calls[i].op \notin {"add", "delete"}

\* The listing of the journals has failed, legacy documents and catalog
\* documents being there to reconcile.
C7_Witness ==
    /\ FailedQuery
    /\ queries[Len(queries)].kind = "journals"
    /\ pc = "aborted"
    /\ isos["artigo"] # <<>>
    /\ remote["documents"] # <<>>
    /\ calls = <<>>

\* C8: an add or delete call that raises, whatever the error, does not end
\* the run.
C8_BatchNeverAborts ==
    (\E i \in DOMAIN calls : calls[i].op \in {"add", "delete"} /\ calls[i].result # "ok") =>
        pc # "aborted"

(***************************************************************************)
(* Properties of the scan of the legacy records (Spec)                     *)
(***************************************************************************)
\* The raw record the i-th turn of the scan read.
LoggedRecord(i) == isos[scan.log[i].iso][scan.log[i].ndx]

\* The record carries a non-empty string as the primary value of the tag.
HasValue(record, tag) ==
    /\ tag \in DOMAIN record
    /\ record[tag] # <<>>
    /\ "_" \in DOMAIN record[tag][1]
    /\ record[tag][1]["_"] \notin {None, <<>>}

KnownLengths == {JournalLen, IssueLen, DocumentLen, ReferenceLen}

\* C11: a raw record with no v880, no v400 and no issue PID to derive (v35
\* or v36 is missing) is dropped: the turn of the scan that read it yields
\* nothing and raises nothing.
C11_DropOnMissingPid ==
    \A i \in DOMAIN scan.log :
        (/\ scan.log[i].outcome # "missing"
         /\ "880" \notin DOMAIN LoggedRecord(i)
         /\ "400" \notin DOMAIN LoggedRecord(i)
         /\ "35" \notin DOMAIN LoggedRecord(i) \/ "36" \notin DOMAIN LoggedRecord(i)) =>
            scan.log[i].outcome = "dropped"

\* C17: a record whose PID has none of the four known lengths is normalized
\* without journal, issue and document and does not end the scan: it is
\* yielded when there is no ISSN argument and filtered out when there is one.
C17_DegeneratePid ==
    /\ \A i \in DOMAIN scan.log :
           (/\ scan.log[i].outcome # "missing"
            /\ HasValue(LoggedRecord(i), "880")
            /\ Len(LoggedRecord(i)["880"][1]["_"]) \notin KnownLengths) =>
               scan.log[i].outcome = IF issns = <<>> THEN "yield" ELSE "filtered"
    /\ \A w \in ctrl.records :
           Len(w[2]["code"]) \notin KnownLengths =>
               DOMAIN w[2] \cap {"journal", "issue", "document"} = {}

\* C20: no delete call is issued for a (collection, code) pair the legacy
\* source holds for the same kind of entity in that run.
C20_NoLegacyEntityDeleted ==
    \A kind \in Kinds :
        \A i \in CallsOf("delete", kind) :
            <<calls[i].collection, calls[i].code>> \notin LegacyInScope(kind)

(***************************************************************************)
(* Further properties of issue_pid and prepare_record (SpecRecord)         *)
(***************************************************************************)
\* The tag is absent from the raw record or carries a string.
AbsentOrString(tag) == tag \notin DOMAIN raw \/ HasString(tag)

\* C16: for a record in which v35 or v36 is absent, the other one being
\* absent or a string, issue_pid raises nothing and returns None.
C16_IssuePidFailureIsValue ==
    (/\ rpc # "input"
     /\ AbsentOrString("35") /\ AbsentOrString("36")
     /\ "35" \notin DOMAIN raw \/ "36" \notin DOMAIN raw) =>
        ipid = Ok(None)

\* The PID the precedence rule gives the raw record: v880, else the issue
\* PID of a record with both v35 and v36, else v400, else none.
PidByPrecedence ==
    IF HasValue(raw, "880") THEN raw["880"][1]["_"]
    ELSE IF HasString("35") /\ HasString("36") THEN ipid.val
    ELSE IF HasValue(raw, "400") THEN raw["400"][1]["_"]
    ELSE None

\* C19: the PID prepare_record derives is the one the precedence rule gives,
\* and the normalized record carries it as 'code' and as its v880.
C19_PidPrecedence ==
    (/\ rpc = "prepared"
     /\ \A tag \in {"880", "35", "36", "400"} : AbsentOrString(tag)) =>
        /\ DerivePid(RenameTags(raw)) = Ok(PidByPrecedence)
        /\ (prepared.ok /\ prepared.some) =>
               /\ prepared.val["code"] = PidByPrecedence
               /\ prepared.val["v880"] = Occ(PidByPrecedence)

\* The session of the broker: never released twice, released only when the
\* run has ended, and released exactly once when a run that entered it ends.
SessionScoped ==
    /\ ctrl.exits <= 1
    /\ ctrl.session = "entered" => ctrl.exits = 0 /\ ~RunEnded
    /\ ctrl.session = "exited" => ctrl.exits = 1 /\ RunEnded
    /\ ctrl.session = "none" => ctrl.exits = 0 /\ pc # "finished"

\* The step ends the run with the session held: it releases the session.
ReleasedOnExit ==
    (ctrl.session = "entered" /\ pc' \in {"finished", "aborted"}) =>
        ctrl'.session = "exited" /\ ctrl'.exits = 1

\* The step issues a load call: the session is held when it does.
LoadsWhileHeld ==
    (Len(calls') > Len(calls) /\ \E i \in (Len(calls) + 1)..Len(calls') : calls'[i].op = "load") =>
        ctrl.session = "entered"

\* C12: on every exit path of run() after the broker session is entered
\* (completion, an error of the normalizer drain, an error of a call) the
\* session is released exactly once, and every load call is issued while
\* the session is held.
C12_ScopedSession == []SessionScoped /\ [][ReleasedOnExit /\ LoadsWhileHeld]_vars

C12_Witness ==
    /\ pc = "aborted"
    /\ ctrl.session = "exited"
    /\ ctrl.exits = 1
    /\ CallsOf("load", "documents") # {}
    /\ calls[Len(calls)].result = "UnauthorizedAccess"

\* The place of a call among the six phases: additions of documents (1),
\* removals of documents (2), then of journals (3, 4), then of issues (5, 6).
PhaseOf(call) ==
    (IF call.kind = "documents" THEN 0 ELSE IF call.kind = "journals" THEN 2 ELSE 4)
        + (IF call.op = "delete" THEN 2 ELSE 1)

RemoteCalls == {i \in DOMAIN calls : calls[i].op \in {"add", "delete"}}

\* C13: the add and delete calls of a run are issued in the order of the
\* phases: additions then removals of documents, of journals, of issues; no
\* call of a later phase precedes a call of an earlier one, and within a
\* kind every add call precedes every delete call.
C13_PhaseOrder ==
    /\ \A i, j \in RemoteCalls : i < j => PhaseOf(calls[i]) <= PhaseOf(calls[j])
    /\ \A kind \in Kinds :
           \A i \in CallsOf("add", kind), j \in CallsOf("delete", kind) : i < j

C13_Witness ==
    /\ pc = "finished"
    /\ \A kind \in Kinds : CallsOf("add", kind) # {} /\ CallsOf("delete", kind) # {}

\* The queries of this run to the listing operation of a kind, in order.
QueriesOf(kind) == SelectSeq(queries, LAMBDA q : q.kind = kind)

\* The items the catalog returned to the queries of a kind.
ReturnedItems(kind) ==
    UNION {Range(Listing(kind, Str_scl, QueriesOf(kind)[i].issn)) : i \in DOMAIN QueriesOf(kind)}

\* The three loaders have returned and the catalog is as they saw it.
Listed == pc \in {"enter", "scan", "plan"}

\* C18: once the loaders have returned, the listing operation of each kind
\* was called once per ISSN of a non-empty filter, with that ISSN and never
\* unfiltered, or exactly once and unfiltered for an empty filter; the
\* identifiers of the kind are the keys of all the items returned.
C18_LoaderQueries ==
    Listed =>
        \A kind \in Kinds :
            /\ issns # <<>> =>
                   QueriesOf(kind) = [i \in DOMAIN issns |-> Query(kind, issns[i], "ok")]
            /\ issns = <<>> => QueriesOf(kind) = <<Query(kind, None, "ok")>>
            /\ Range(articlemeta[kind]) =
                   {IF kind = "journals"
                    THEN e.collection \o <<"_">> \o e.code
                    ELSE e.collection \o <<"_">> \o e.code \o <<"_">>
                             \o SelectSeq(e.processing_date, LAMBDA c : c # "-") :
                        e \in ReturnedItems(kind)}

C18_Witness ==
    /\ Listed
    /\ Len(issns) = 2
    /\ Len(queries) = 6
    /\ Len(articlemeta["documents"]) = 2
    /\ \A i \in DOMAIN issns : Listing("documents", Str_scl, issns[i]) # <<>>

\* The delete calls of this run for an identifier key of a kind.
DeletesOf(kind, key) ==
    {i \in CallsOf("delete", kind) :
        calls[i].collection = Split(key)[1] /\ calls[i].code = Split(key)[2]}

Unauthorized(kind) ==
    {i \in CallsOf("delete", kind) : calls[i].result = "UnauthorizedAccess"}

\* C15: in a run that has ended, when a delete call of a kind raised
\* UnauthorizedAccess, every key of the to-remove list of the kind got
\* exactly one delete call (the refused key is not retried, the remaining
\* keys are not skipped) and the run went through the following phases to
\* its end.
C15_UnauthorizedDelete ==
    RunEnded =>
        \A kind \in Kinds :
            Unauthorized(kind) # {} =>
                /\ \A k \in DOMAIN plan.to_remove[kind] :
                       Cardinality(DeletesOf(kind, plan.to_remove[kind][k])) = 1
                /\ pc = "finished"

\* An addition phase is finished: the load of every key to add was attempted.
AdditionsDone(kind) ==
    \A k \in DOMAIN plan.new[kind] : Attempted("load", kind, plan.new[kind][k])

\* A removal phase is finished: every key was given to a delete call, or
\* the list is over the threshold and the batch was skipped.
RemovalsDone(kind) ==
    IF Len(plan.to_remove[kind]) > Threshold(kind)
    THEN CallsOf("delete", kind) = {}
    ELSE \A k \in DOMAIN plan.to_remove[kind] :
             Attempted("delete", kind, plan.to_remove[kind][k])

MarkerAfterPhases ==
    pc = "finished" =>
        /\ failure = None
        /\ \A kind \in Kinds : AdditionsDone(kind) /\ RemovalsDone(kind)

\* C14: the 'finished' marker is logged only when each of the six phases
\* has finished (every key processed, or the removal batch skipped by the
\* threshold), and every run that starts either reaches the marker or ends
\* with an error that propagated out of it.
C14_CompletionMarker ==
    /\ []MarkerAfterPhases
    /\ (pc = "list_documents") ~> (pc = "finished" \/ (pc = "aborted" /\ failure # None))

C14_Witness ==
    /\ pc = "finished"
    /\ \E kind \in Kinds : Len(plan.to_remove[kind]) > Threshold(kind)
    /\ \E kind \in Kinds : plan.new[kind] # <<>>
    /\ ~AllCallsReturned

====
